---- MODULE Spec2Model ----
(***************************************************************************)
(* A model of src/src/extension.ts: the store reference tracker            *)
(* (LitStoreReferenceTracker) of the extension, with the host it runs in:  *)
(* open buffers, the disk, the timer queue and the pending file reads.     *)
(*                                                                         *)
(* Texts, paths and names are strings.  An offset is 0-based as in         *)
(* JavaScript; the character at offset o of s is SubSeq(s, o + 1, o + 1).  *)
(***************************************************************************)
EXTENDS Integers, Sequences, FiniteSets, Bags, TLC

(***************************************************************************)
(* String primitives (String.prototype and the regular expression classes) *)
(***************************************************************************)

\* The character of s at offset o; "" past either end.
At(s, o) == IF o >= 0 /\ o < Len(s) THEN SubSeq(s, o + 1, o + 1) ELSE ""

\* s.slice(a, b) for 0 <= a <= b <= Len(s).
Slice(s, a, b) == SubSeq(s, a + 1, b)

\* The class \w.
WordChars ==
  { "a", "b", "c", "d", "e", "f", "g", "h", "i", "j", "k", "l", "m",
    "n", "o", "p", "q", "r", "s", "t", "u", "v", "w", "x", "y", "z",
    "A", "B", "C", "D", "E", "F", "G", "H", "I", "J", "K", "L", "M",
    "N", "O", "P", "Q", "R", "S", "T", "U", "V", "W", "X", "Y", "Z",
    "0", "1", "2", "3", "4", "5", "6", "7", "8", "9", "_" }

\* The class \s, as far as the texts of the model use it.
SpaceChars == { " ", "\t", "\n", "\r" }

\* The characters the regular expression dot does not match.
LineTerminators == { "\n", "\r" }

IsWordAt(s, o) == At(s, o) \in WordChars

IsSpaceAt(s, o) == At(s, o) \in SpaceChars

\* Whether lit occurs in s at offset o.
LitAt(s, o, lit) ==
  /\ o >= 0
  /\ o + Len(lit) <= Len(s)
  /\ Slice(s, o, o + Len(lit)) = lit

\* s.startsWith(lit) and the test of /lit$/.
StartsWith(s, lit) == LitAt(s, 0, lit)

EndsWith(s, lit) == LitAt(s, Len(s) - Len(lit), lit)

\* The least (greatest) element of a non-empty set of integers.
Least(S) == CHOOSE x \in S : \A y \in S : x <= y

Greatest(S) == CHOOSE x \in S : \A y \in S : x >= y

\* The offset after a maximal run of \s (\w) that starts at offset o.
SkipSpaces(s, o) == Least({ p \in o..Len(s) : ~IsSpaceAt(s, p) })

SkipWord(s, o) == Least({ p \in o..Len(s) : ~IsWordAt(s, p) })

\* The offset of the first character of `chars` at or after o, or Len(s)
\* when there is none.
FindChar(s, o, chars) ==
  Least({ p \in o..Len(s) : p = Len(s) \/ At(s, p) \in chars })

\* s.indexOf(sub): the first offset where sub occurs, or -1.
IndexOf(s, sub) ==
  LET found == { p \in 0..Len(s) : LitAt(s, p, sub) }
  IN  IF found = {} THEN -1 ELSE Least(found)

\* s.includes(sub).
Includes(s, sub) == IndexOf(s, sub) >= 0

\* s.trim().
Trim(s) ==
  LET kept == { p \in 0..(Len(s) - 1) : ~IsSpaceAt(s, p) }
  IN  IF kept = {} THEN "" ELSE Slice(s, Least(kept), Greatest(kept) + 1)

\* s.split(sep) for a one-character sep.
RECURSIVE SplitFrom(_, _, _)
SplitFrom(s, sep, o) ==
  LET e == FindChar(s, o, {sep})
  IN  IF e >= Len(s) THEN << Slice(s, o, Len(s)) >>
      ELSE << Slice(s, o, e) >> \o SplitFrom(s, sep, e + 1)

Split(s, sep) == SplitFrom(s, sep, 0)

\* The word boundary \b at offset o: between the characters o - 1 and o.
WordBoundary(s, o) == IsWordAt(s, o - 1) # IsWordAt(s, o)

(***************************************************************************)
(* Positions and locations                                                 *)
(***************************************************************************)

\* The offsets after each separator /\r?\n|\r|\n/ of pre: a "\r" that a "\n"
\* follows is part of that "\n"'s separator.
LineStarts(pre) ==
  { p + 1 : p \in { q \in 0..(Len(pre) - 1) :
                      \/ At(pre, q) = "\n"
                      \/ At(pre, q) = "\r" /\ At(pre, q + 1) # "\n" } }

\* lines = text.slice(0, offset).split(...); line = lines.length - 1;
\* character = lines[line].length.
getPositionFromOffset(text, offset) ==
  LET pre    == Slice(text, 0, offset)
      starts == LineStarts(pre)
  IN  [ line      |-> Cardinality(starts),
        character |-> Len(pre) - (IF starts = {} THEN 0 ELSE Greatest(starts)) ]

\* new vscode.Location(uri, new vscode.Range(startPos, endPos)).
Location(file, text, startOff, endOff) ==
  [ file  |-> file,
    start |-> getPositionFromOffset(text, startOff),
    end   |-> getPositionFromOffset(text, endOff) ]

\* The key of the visited set: `${fsPath}:${line}:${character}`.
VisitedKey(loc) == << loc.file, loc.start.line, loc.start.character >>

(***************************************************************************)
(* The patterns.  A match is [index, end, ...groups]; NoMatch when the     *)
(* pattern does not match at the offset.                                   *)
(***************************************************************************)

NoMatch == [index |-> -1]

Quotes == { "'", "\"" }

\* The length of the alternative of (const|let|var) that matches at o, or 0.
DeclKeywordLen(s, o) ==
  IF LitAt(s, o, "const") THEN 5
  ELSE IF LitAt(s, o, "let") THEN 3
  ELSE IF LitAt(s, o, "var") THEN 3
  ELSE 0

\* /export\s+(const|let|var)\s+(\w+)\s*=/ at offset o.
ExportMatchAt(s, o) ==
  LET a == o + 6
      b == SkipSpaces(s, a)
      c == b + DeclKeywordLen(s, b)
      d == SkipSpaces(s, c)
      e == SkipWord(s, d)
      f == SkipSpaces(s, e)
  IN  IF /\ LitAt(s, o, "export")
         /\ b > a
         /\ c > b
         /\ d > c
         /\ e > d
         /\ At(s, f) = "="
      THEN [index |-> o, end |-> f + 1, name |-> Slice(s, d, e)]
      ELSE NoMatch

\* The successive exec() results of the global EXPORT_PATTERN from lastIndex.
RECURSIVE EXPORT_PATTERN(_, _)
EXPORT_PATTERN(s, lastIndex) ==
  LET found == { o \in lastIndex..Len(s) : ExportMatchAt(s, o).index >= 0 }
  IN  IF found = {} THEN << >>
      ELSE LET m == ExportMatchAt(s, Least(found))
           IN  << m >> \o EXPORT_PATTERN(s, m.end)

\* /import\s+{([^}]+)}\s+from\s+['"](.+?)['"]/ at offset o.
ImportMatchAt(s, o) ==
  LET a == o + 6
      b == SkipSpaces(s, a)
      c == b + 1
      d == FindChar(s, c, {"}"})
      e == d + 1
      f == SkipSpaces(s, e)
      g == f + 4
      h == SkipSpaces(s, g)
      i == h + 1
      j == FindChar(s, i + 1, Quotes \cup LineTerminators)
  IN  IF /\ LitAt(s, o, "import")
         /\ b > a
         /\ At(s, b) = "{"
         /\ d > c
         /\ At(s, d) = "}"
         /\ f > e
         /\ LitAt(s, f, "from")
         /\ h > g
         /\ At(s, h) \in Quotes
         /\ At(s, i) # ""
         /\ At(s, i) \notin LineTerminators
         /\ At(s, j) \in Quotes
      THEN [ index |-> o, end |-> j + 1, all |-> Slice(s, o, j + 1),
             block |-> Slice(s, c, d), path |-> Slice(s, i, j) ]
      ELSE NoMatch

\* The successive exec() results of the global IMPORT_PATTERN from lastIndex.
RECURSIVE IMPORT_PATTERN(_, _)
IMPORT_PATTERN(s, lastIndex) ==
  LET found == { o \in lastIndex..Len(s) : ImportMatchAt(s, o).index >= 0 }
  IN  IF found = {} THEN << >>
      ELSE LET m == ImportMatchAt(s, Least(found))
           IN  << m >> \o IMPORT_PATTERN(s, m.end)

\* new RegExp(`export\\s+(const|let|var)\\s+(${storeName})\\b`) at offset o.
DefinitionMatchAt(s, o, storeName) ==
  LET a == o + 6
      b == SkipSpaces(s, a)
      c == b + DeclKeywordLen(s, b)
      d == SkipSpaces(s, c)
      e == d + Len(storeName)
  IN  IF /\ LitAt(s, o, "export")
         /\ b > a
         /\ c > b
         /\ d > c
         /\ LitAt(s, d, storeName)
         /\ WordBoundary(s, e)
      THEN [index |-> o, end |-> e, all |-> Slice(s, o, e)]
      ELSE NoMatch

RECURSIVE DefinitionMatches(_, _, _)
DefinitionMatches(s, lastIndex, storeName) ==
  LET found == { o \in lastIndex..Len(s) : DefinitionMatchAt(s, o, storeName).index >= 0 }
  IN  IF found = {} THEN << >>
      ELSE LET m == DefinitionMatchAt(s, Least(found), storeName)
           IN  << m >> \o DefinitionMatches(s, m.end, storeName)

\* new RegExp(`\\bthis\\.${storeName}\\b`) at offset o.
ThisMatchAt(s, o, storeName) ==
  LET e == o + 5 + Len(storeName)
  IN  IF /\ WordBoundary(s, o)
         /\ LitAt(s, o, "this." \o storeName)
         /\ WordBoundary(s, e)
      THEN [index |-> o, end |-> e]
      ELSE NoMatch

RECURSIVE ThisMatches(_, _, _)
ThisMatches(s, lastIndex, storeName) ==
  LET found == { o \in lastIndex..Len(s) : ThisMatchAt(s, o, storeName).index >= 0 }
  IN  IF found = {} THEN << >>
      ELSE LET m == ThisMatchAt(s, Least(found), storeName)
           IN  << m >> \o ThisMatches(s, m.end, storeName)

(***************************************************************************)
(* Paths (the path and fs modules)                                         *)
(***************************************************************************)

\* Map<K, V> as a function on the keys present.
EmptyMap == [k \in {} |-> k]

MapSet(m, k, v) == [x \in DOMAIN m \cup {k} |-> IF x = k THEN v ELSE m[x]]

MapDelete(m, k) == [x \in DOMAIN m \ {k} |-> m[x]]

\* The offset of the last "/" of p, or -1.
LastSlash(p) ==
  LET found == { o \in 0..(Len(p) - 1) : At(p, o) = "/" }
  IN  IF found = {} THEN -1 ELSE Greatest(found)

\* path.basename(p) and path.dirname(p) of an absolute path.
Basename(p) == Slice(p, LastSlash(p) + 1, Len(p))

Dirname(p) == IF LastSlash(p) <= 0 THEN "/" ELSE Slice(p, 0, LastSlash(p))

\* The segments of a path with "", "." and ".." resolved.
RECURSIVE Normalize(_, _)
Normalize(segs, acc) ==
  IF segs = << >> THEN acc
  ELSE LET h == Head(segs)
       IN  IF h = "" \/ h = "." THEN Normalize(Tail(segs), acc)
           ELSE IF h = ".."
                THEN Normalize(Tail(segs),
                               IF acc = << >> THEN acc
                               ELSE SubSeq(acc, 1, Len(acc) - 1))
           ELSE Normalize(Tail(segs), Append(acc, h))

RECURSIVE JoinSegments(_)
JoinSegments(segs) ==
  IF segs = << >> THEN "" ELSE "/" \o Head(segs) \o JoinSegments(Tail(segs))

\* path.resolve(baseDir, importPath) for an absolute baseDir and a relative
\* importPath.
PathResolve(baseDir, importPath) ==
  LET segs == Normalize(Split(baseDir, "/") \o Split(importPath, "/"), << >>)
  IN  IF segs = << >> THEN "/" ELSE JoinSegments(segs)

\* resolveImportPath; `existing` is the set of paths fs.existsSync finds.
resolveImportPath(importPath, baseDir, existing) ==
  IF StartsWith(importPath, "./") \/ StartsWith(importPath, "../")
  THEN LET fullPath == PathResolve(baseDir, importPath)
       IN  IF ~EndsWith(fullPath, ".ts") /\ (fullPath \o ".ts") \in existing
           THEN fullPath \o ".ts"
           ELSE fullPath
  ELSE importPath

\* isStoreFile: /\.store\.ts?$/.
isStoreFile(filePath) ==
  EndsWith(filePath, ".store.ts") \/ EndsWith(filePath, ".store.t")

(***************************************************************************)
(* The text scans of the tracker                                           *)
(***************************************************************************)

\* The names the loop of analyzeStoreFile adds to newSet.
ExportedNames(text) ==
  LET ms == EXPORT_PATTERN(text, 0) IN { ms[i].name : i \in DOMAIN ms }

\* The body of findStoreDefinitions once the text is known.
DefinitionLocations(storeFilePath, text, storeName) ==
  LET ms == DefinitionMatches(text, 0, storeName)
  IN  [ i \in DOMAIN ms |->
          LET startOff == ms[i].index + IndexOf(ms[i].all, storeName)
          IN  Location(storeFilePath, text, startOff,
                       startOff + Len(storeName)) ]

\* if (!visited.has(key)) { visited.add(key); results.push(loc) } for each
\* candidate in turn: [results, visited].
RECURSIVE PushUnvisited(_, _, _)
PushUnvisited(candidates, results, visited) ==
  IF candidates = << >> THEN [results |-> results, visited |-> visited]
  ELSE LET loc == Head(candidates)
       IN  IF VisitedKey(loc) \in visited
           THEN PushUnvisited(Tail(candidates), results, visited)
           ELSE PushUnvisited(Tail(candidates), Append(results, loc),
                              visited \cup {VisitedKey(loc)})

\* findThisStoreReferences: [results, visited].
findThisStoreReferences(fsPath, content, storeName, visited) ==
  LET ms == ThisMatches(content, 0, storeName)
      candidates ==
        [ i \in DOMAIN ms |->
            Location(fsPath, content, ms[i].index + 5,
                     ms[i].index + 5 + Len(storeName)) ]
  IN  PushUnvisited(candidates, << >>, visited)

\* The matches of IMPORT_PATTERN whose importBlock includes storeName.
RECURSIVE SelectIncluding(_, _)
SelectIncluding(ms, storeName) ==
  IF ms = << >> THEN << >>
  ELSE (IF Includes(Head(ms).block, storeName) THEN << Head(ms) >> ELSE << >>)
       \o SelectIncluding(Tail(ms), storeName)

\* findImportReferences: [results, visited].
findImportReferences(fsPath, content, storeName, visited) ==
  LET ms == SelectIncluding(IMPORT_PATTERN(content, 0), storeName)
      candidates ==
        [ i \in DOMAIN ms |->
            LET importPos == ms[i].index + IndexOf(ms[i].all, storeName)
            IN  Location(fsPath, content, importPos,
                         importPos + Len(storeName)) ]
  IN  PushUnvisited(candidates, << >>, visited)

\* Whether the pattern of baseName, its dots matching any character of a
\* line, matches s at offset o.
BaseNameAt(s, o, baseName) ==
  /\ o + Len(baseName) <= Len(s)
  /\ \A i \in 0..(Len(baseName) - 1) :
       IF At(baseName, i) = "."
       THEN At(s, o + i) \notin LineTerminators
       ELSE At(s, o + i) = At(baseName, i)

\* `import\s+{[^}]*\bNAME\b[^}]*}\s+from\s+(['"]).*BASE\1` at offset o.
HasImportAt(s, o, storeName, baseName) ==
  LET a == o + 6
      b == SkipSpaces(s, a)
      c == b + 1
      d == FindChar(s, c, {"}"})
      e == d + 1
      f == SkipSpaces(s, e)
      g == f + 4
      h == SkipSpaces(s, g)
      i == h + 1
      eol == FindChar(s, i, LineTerminators)
  IN  /\ LitAt(s, o, "import")
      /\ b > a
      /\ At(s, b) = "{"
      /\ At(s, d) = "}"
      /\ \E k \in c..(d - Len(storeName)) :
           /\ LitAt(s, k, storeName)
           /\ WordBoundary(s, k)
           /\ WordBoundary(s, k + Len(storeName))
      /\ f > e
      /\ LitAt(s, f, "from")
      /\ h > g
      /\ At(s, h) \in Quotes
      /\ \E m \in i..eol :
           /\ BaseNameAt(s, m, baseName)
           /\ m + Len(baseName) <= eol
           /\ At(s, m + Len(baseName)) = At(s, h)

hasImportedStore(content, storeFilePath, storeName) ==
  LET base     == Basename(storeFilePath)
      baseName == IF EndsWith(base, ".ts")
                  THEN Slice(base, 0, Len(base) - 3)
                  ELSE base
  IN  \E o \in 0..Len(content) : HasImportAt(content, o, storeName, baseName)

\* n.match(/^(\w+)(?:\s+as\s+(\w+))?/): the alias the name n binds, or ""
\* when there is no match.
ImportAlias(n) ==
  LET a == SkipWord(n, 0)
      b == SkipSpaces(n, a)
      c == b + 2
      d == SkipSpaces(n, c)
      e == SkipWord(n, d)
  IN  IF a = 0 THEN ""
      ELSE IF b > a /\ LitAt(n, b, "as") /\ d > c /\ e > d
           THEN Slice(n, d, e)
           ELSE Slice(n, 0, a)

\* for (const n of rawNames) storeMap.set(alias, resolved).
RECURSIVE SetAliases(_, _, _)
SetAliases(storeMap, rawNames, resolved) ==
  IF rawNames = << >> THEN storeMap
  ELSE LET alias == ImportAlias(Trim(Head(rawNames)))
       IN  SetAliases(IF alias = "" THEN storeMap
                      ELSE MapSet(storeMap, alias, resolved),
                      Tail(rawNames), resolved)

\* The storeMap the loop of analyzeComponentImports builds from the matches.
RECURSIVE StoreMapOf(_, _, _, _)
StoreMapOf(ms, storeMap, filePath, existing) ==
  IF ms = << >> THEN storeMap
  ELSE LET resolved ==
             resolveImportPath(Head(ms).path, Dirname(filePath), existing)
       IN  StoreMapOf(Tail(ms),
                      IF isStoreFile(resolved)
                      THEN SetAliases(storeMap, Split(Head(ms).block, ","),
                                      resolved)
                      ELSE storeMap,
                      filePath, existing)

ImportBindings(filePath, text, existing) ==
  StoreMapOf(IMPORT_PATTERN(text, 0), EmptyMap, filePath, existing)

(***************************************************************************)
(* The workspace of the model                                              *)
(***************************************************************************)

\* The store file the environment edits, a second store file that exports
\* the same name, and a component that imports from the first.
StorePath == "/p/c.store.ts"

OtherStorePath == "/p/d.store.ts"

ComponentPath == "/p/w.ts"

\* Two more components, for the workspace of the reference queries.
SecondComponentPath == "/p/x.ts"

ThirdComponentPath == "/p/y.ts"

\* The texts the store file takes: one export, another export, nothing.
StoreTexts ==
  { "export const count = 0;\n",
    "export let total = 1;\n",
    "" }

\* The texts the component takes: it imports `count` from the store file,
\* or `total` under another name from the other store file, or nothing.
ComponentTexts ==
  { "import { count } from \"./c.store\";\nthis.count;\n",
    "import { total as sum } from \"./d.store\";\nthis.sum;\n",
    "this.count;\n" }

\* The workspace of the reference queries.  The first component imports
\* `counter` from a module that is no store and `count` from the store file;
\* the two others import `count` from the store file.  The store file
\* exports `count`, or holds a text that imports from itself and declares
\* an export named `export`.
WidgetText ==
  "import { counter } from \"./other\";\nimport { count } from \"./c.store\";\nthis.count;\n"

PlainComponentText == "import { count } from \"./c.store\";\nthis.count;\n"

\* A component that imports `count` from the store file under the name
\* `sum`.
RenamingText == "import { count as sum } from \"./c.store\";\nthis.sum;\n"

ScanComponentTexts == { WidgetText, RenamingText }

ScanStoreTexts ==
  { "export const count = 0;\n",
    "import { export } from \"./c.store\";\nthis.export let export;\n" }

\* setTimeout(..., 300) in scheduleAnalysisForStore.
AnalysisDelay == 300

\* The step of the clock: half the delay.
TimeStep == AnalysisDelay \div 2

\* The most file reads in flight at once.
MaxTasks == 2

\* The ceiling of the counters that only observe (passes, scans).
MaxCount == 2

\* string | undefined.
Some(t) == [ok |-> TRUE, text |-> t]

None == [ok |-> FALSE, text |-> ""]

\* !text
Falsy(v) == ~v.ok \/ v.text = ""

Min(a, b) == IF a <= b THEN a ELSE b

VARIABLES
  \* The fields of LitStoreReferenceTracker.
  storeFileToNamesMap, storeNameToFilesMap, componentImportsMap,
  fileCache, analyzedFiles, pendingAnalysis,
  \* The host: vscode.workspace.textDocuments, the files on disk, the timers
  \* of setTimeout that have neither fired nor been cleared (oldest first),
  \* the bag of calls suspended in vscode.workspace.fs.readFile, and whether
  \* activate's findFiles has resolved.
  textDocuments, disk, timers, tasks, activated,
  \* The reference query in progress.
  query,
  \* Observation only, read by no handler: which observation is kept, the
  \* last handler that ran, the burst of change events on the store file,
  \* the number of import scans of the component since its last
  \* invalidation.
  watch, lastOp, burst, importCycle

trackerVars ==
  << storeFileToNamesMap, storeNameToFilesMap, componentImportsMap,
     fileCache, analyzedFiles, pendingAnalysis >>

hostVars == << textDocuments, disk, timers, tasks, activated >>

historyVars == << watch, lastOp, burst, importCycle >>

vars == << trackerVars, hostVars, query, historyVars >>

(***************************************************************************)
(* The tracker's methods, as functions of the state they read and write.   *)
(* tr is the part getDocumentText touches:                                 *)
(*   [fileCache, analyzedFiles, pendingAnalysis, timers]                   *)
(* and idx the two index maps:                                             *)
(*   [storeFileToNamesMap, storeNameToFilesMap].                           *)
(***************************************************************************)

Tr ==
  [ fileCache       |-> fileCache,
    analyzedFiles   |-> analyzedFiles,
    pendingAnalysis |-> pendingAnalysis,
    timers          |-> timers ]

Idx ==
  [ storeFileToNamesMap |-> storeFileToNamesMap,
    storeNameToFilesMap |-> storeNameToFilesMap ]

\* The handles in use: those of the outstanding timers and of pendingAnalysis.
UsedTimerIds(tr) ==
  { tr.timers[i].id : i \in DOMAIN tr.timers }
  \cup { tr.pendingAnalysis[f] : f \in DOMAIN tr.pendingAnalysis }

\* The handle setTimeout returns: one not in use.
FreshTimerId(used) == Least({ i \in 1..(Cardinality(used) + 1) : i \notin used })

\* clearTimeout(id): nothing when the timer has fired already.
ClearTimeout(ts, id) == SelectSeq(ts, LAMBDA t : t.id # id)

\* setTimeout(callback, 300) and pendingAnalysis.set(filePath, timeoutId).
SetTimeout(tr, filePath, timeoutId) ==
  [ tr EXCEPT
      !.timers = Append(@, [ id |-> timeoutId, file |-> filePath,
                             rem |-> AnalysisDelay ]),
      !.pendingAnalysis = MapSet(@, filePath, timeoutId) ]

scheduleAnalysisForStore(tr, filePath) ==
  SetTimeout(IF filePath \in DOMAIN tr.pendingAnalysis
             THEN [ tr EXCEPT !.timers =
                      ClearTimeout(@, tr.pendingAnalysis[filePath]) ]
             ELSE tr,
             filePath, FreshTimerId(UsedTimerIds(tr)))

\* string | undefined.
Returned(tr, suspended, value) ==
  [tr |-> tr, suspended |-> suspended, value |-> value]

\* The branch of getDocumentText for an open document whose text differs
\* from the cached one; tr holds the text already.
ObserveChange(tr, fsPath) ==
  [ (IF isStoreFile(fsPath) THEN scheduleAnalysisForStore(tr, fsPath) ELSE tr)
    EXCEPT !.analyzedFiles = @ \ {fsPath} ]

\* The branch of getDocumentText for an open document.
OpenDocumentText(tr, fsPath, text) ==
  IF fsPath \in DOMAIN tr.fileCache /\ tr.fileCache[fsPath] = text
  THEN Returned(tr, FALSE, Some(text))
  ELSE Returned(ObserveChange([tr EXCEPT !.fileCache = MapSet(@, fsPath, text)],
                              fsPath),
                FALSE, Some(text))

\* getDocumentText that looks in the cache before the open documents.
getDocumentTextCacheFirst(tr, docs, fsPath) ==
  IF fsPath \in DOMAIN tr.fileCache
  THEN Returned(tr, FALSE, Some(tr.fileCache[fsPath]))
  ELSE IF fsPath \in DOMAIN docs
  THEN OpenDocumentText(tr, fsPath, docs[fsPath])
  ELSE Returned(tr, TRUE, None)

\* getDocumentText up to its return or its await of readFile:
\* [tr, suspended, value].
getDocumentText(tr, docs, fsPath) ==
  IF fsPath \in DOMAIN docs
  THEN OpenDocumentText(tr, fsPath, docs[fsPath])
  ELSE IF fsPath \in DOMAIN tr.fileCache
  THEN Returned(tr, FALSE, Some(tr.fileCache[fsPath]))
  ELSE Returned(tr, TRUE, None)

\* getDocumentText after readFile without the catch: the failure of the
\* read goes to the caller in place of undefined.
getDocumentTextResumeUncaught(tr, fsPath, data) ==
  Returned(IF data.ok
           THEN [tr EXCEPT !.fileCache = MapSet(@, fsPath, data.text)]
           ELSE tr,
           FALSE,
           IF data.ok THEN data ELSE [ok |-> FALSE, text |-> "ENOENT"])

\* getDocumentText after readFile: `data` is what was read, None when the
\* read failed (the catch): [tr, suspended, value].
getDocumentTextResume(tr, fsPath, data) ==
  Returned(IF data.ok
           THEN [tr EXCEPT !.fileCache = MapSet(@, fsPath, data.text)]
           ELSE tr,
           FALSE, data)

\* What readFile delivers for a read that starts now.
ReadFile(fsPath) == IF fsPath \in DOMAIN disk THEN Some(disk[fsPath]) ELSE None

\* The current text of the file: its buffer when it is open, else what is
\* on disk.
ContentOf(f) == IF f \in DOMAIN textDocuments THEN textDocuments[f] ELSE disk[f]

\* The bag of suspended calls with one more: `op`, awaiting the read of
\* fsPath that starts now.
Suspend(ts, op, fsPath) ==
  ts (+) SetToBag({[op |-> op, file |-> fsPath, data |-> ReadFile(fsPath)]})

\* The reverse map after the loop over the matches: filePath added to the
\* entry of every name of newSet.
AddToReverse(rev, filePath, newSet) ==
  [ n \in DOMAIN rev \cup newSet |->
      (IF n \in DOMAIN rev THEN rev[n] ELSE {})
      \cup (IF n \in newSet THEN {filePath} ELSE {}) ]

\* The reverse map after the loop over oldSet: filePath deleted from the
\* entry of every name of `gone`, and the entry deleted when left empty.
PruneReverse(rev, filePath, gone) ==
  [ n \in { x \in DOMAIN rev : ~(x \in gone /\ rev[x] \ {filePath} = {}) } |->
      IF n \in gone THEN rev[n] \ {filePath} ELSE rev[n] ]

\* The loop over oldSet left out.
ReindexNamesLeak(idx, filePath, oldSet, newSet) ==
  [ storeNameToFilesMap |->
      AddToReverse(idx.storeNameToFilesMap, filePath, newSet),
    storeFileToNamesMap |->
      MapSet(idx.storeFileToNamesMap, filePath, newSet) ]

\* The body of analyzeStoreFile from oldSet and newSet.
ReindexNames(idx, filePath, oldSet, newSet) ==
  [ storeNameToFilesMap |->
      PruneReverse(AddToReverse(idx.storeNameToFilesMap, filePath, newSet),
                   filePath, oldSet \ newSet),
    storeFileToNamesMap |->
      MapSet(idx.storeFileToNamesMap, filePath, newSet) ]

\* analyzeStoreFile with the new names added to the old entry of the file
\* in place of replacing it.
ReindexMerging(idx, filePath, value) ==
  IF Falsy(value) THEN idx
  ELSE ReindexNames(idx, filePath, {},
                    (IF filePath \in DOMAIN idx.storeFileToNamesMap
                     THEN idx.storeFileToNamesMap[filePath]
                     ELSE {})
                    \cup ExportedNames(value.text))

\* analyzeStoreFile without `if (!text) return`: no text is a text that
\* exports nothing.
ReindexNoText(idx, filePath, value) ==
  ReindexNames(idx, filePath,
               IF filePath \in DOMAIN idx.storeFileToNamesMap
               THEN idx.storeFileToNamesMap[filePath]
               ELSE {},
               IF Falsy(value) THEN {} ELSE ExportedNames(value.text))

\* analyzeStoreFile after its await: `value` is what getDocumentText gave.
Reindex(idx, filePath, value) ==
  IF Falsy(value) THEN idx
  ELSE ReindexNames(idx, filePath,
                    IF filePath \in DOMAIN idx.storeFileToNamesMap
                    THEN idx.storeFileToNamesMap[filePath]
                    ELSE {},
                    ExportedNames(value.text))

\* analyzeStoreFile once getDocumentText has returned or suspended (g):
\* [tr, idx, tasks, suspended, value].
AnalyzeAfter(g, idx, ts, filePath) ==
  [ tr        |-> g.tr,
    idx       |-> IF g.suspended THEN idx ELSE Reindex(idx, filePath, g.value),
    tasks     |-> IF g.suspended
                  THEN Suspend(ts, "analyzeStoreFile", filePath)
                  ELSE ts,
    suspended |-> g.suspended,
    value     |-> g.value ]

\* analyzeStoreFile from its call to its first suspension or its end.
analyzeStoreFile(tr, idx, ts, docs, filePath) ==
  AnalyzeAfter(getDocumentText(tr, docs, filePath), idx, ts, filePath)

invalidateCache(tr, filePath) ==
  IF isStoreFile(filePath)
  THEN scheduleAnalysisForStore(
         [ tr EXCEPT !.fileCache = MapDelete(@, filePath),
                     !.analyzedFiles = @ \ {filePath} ], filePath)
  ELSE [ tr EXCEPT !.fileCache = MapDelete(@, filePath),
                   !.analyzedFiles = @ \ {filePath} ]

isStoreVariable(idx, filePath, varName) ==
  /\ filePath \in DOMAIN idx.storeFileToNamesMap
  /\ varName \in idx.storeFileToNamesMap[filePath]

Commit(tr) ==
  /\ fileCache' = tr.fileCache
  /\ analyzedFiles' = tr.analyzedFiles
  /\ pendingAnalysis' = tr.pendingAnalysis
  /\ timers' = tr.timers

CommitIdx(idx) ==
  /\ storeFileToNamesMap' = idx.storeFileToNamesMap
  /\ storeNameToFilesMap' = idx.storeNameToFilesMap

(***************************************************************************)
(* Observation: what the properties read, and no handler does.             *)
(***************************************************************************)

NoOp ==
  [op |-> "", file |-> "", value |-> None, open |-> FALSE, stale |-> FALSE]

\* The handler `op` has just run on `file`, called when the open documents
\* were `docs`; its getDocumentText returned `value`.  `open` tells whether
\* the file had an open buffer at the call, and `stale` whether the cache
\* then held another text than the buffer.
Op(op, file, value, docs) ==
  IF watch = "ops"
  THEN [ op |-> op, file |-> file, value |-> value,
         open |-> file \in DOMAIN docs,
         stale |-> /\ file \in DOMAIN docs
                   /\ file \in DOMAIN fileCache
                   /\ fileCache[file] # docs[file] ]
  ELSE NoOp

\* No reindex of the file is scheduled or in flight.
Quiet(ts, tks, f) ==
  /\ \A i \in DOMAIN ts : ts[i].file # f
  /\ \A k \in BagToSet(tks) : ~(k.op = "analyzeStoreFile" /\ k.file = f)

\* The cache holds nothing else than the buffer of the open file f.
InSync(f) ==
  /\ f \in DOMAIN textDocuments
  /\ f \in DOMAIN fileCache => fileCache[f] = textDocuments[f]

NoBurst == [active |-> FALSE, ok |-> FALSE, gap |-> 0, passes |-> 0]

\* A change event (an edit or a save) on the store file: it continues the
\* burst when it comes within the delay of the previous event, and starts a
\* new one otherwise.  A burst counts (ok) when it starts with no reindex of
\* the file scheduled or in flight and with the cache in sync with the
\* buffer, and when nothing else than its events touches the file.
BurstEvent(f) ==
  IF f # StorePath \/ watch # "burst" THEN burst
  ELSE IF burst.active /\ burst.gap < AnalysisDelay
  THEN [burst EXCEPT !.gap = 0]
  ELSE [ active |-> TRUE, ok |-> Quiet(timers, tasks, f) /\ InSync(f),
         gap |-> 0, passes |-> 0 ]

\* Something else than a change event touches the store file.
BurstOther(f) ==
  IF f = StorePath /\ burst.active THEN [burst EXCEPT !.ok = FALSE] ELSE burst

\* A run of analyzeStoreFile on the file.
BurstPass(f) ==
  IF f = StorePath /\ burst.active
  THEN [burst EXCEPT !.passes = Min(@ + 1, MaxCount)]
  ELSE burst

\* invalidateCache, or a getDocumentText that observes changed content,
\* starts a new cycle of the component's import bindings: no scan yet.
CycleInvalidated(f) == IF f = ComponentPath THEN 0 ELSE importCycle

\* getDocumentText(f) takes the branch of ObserveChange.
ObservedChange(docs, f) ==
  /\ f \in DOMAIN docs
  /\ ~(f \in DOMAIN fileCache /\ fileCache[f] = docs[f])

CycleObserved(docs, f) ==
  IF ObservedChange(docs, f) THEN CycleInvalidated(f) ELSE importCycle

(***************************************************************************)
(* The host's events and the handlers activate subscribes to them          *)
(***************************************************************************)

\* A document is opened: the buffer shows what is on disk.  No handler.
OpenDocument(f) ==
  /\ f \notin DOMAIN textDocuments
  /\ f \in DOMAIN disk
  /\ textDocuments' = MapSet(textDocuments, f, disk[f])
  /\ lastOp' = NoOp
  /\ burst' = BurstOther(f)
  /\ UNCHANGED << trackerVars, disk, timers, tasks, activated, query, watch,
                  importCycle >>

\* The document is closed.  No handler.
CloseDocument(f) ==
  /\ f \in DOMAIN textDocuments
  /\ textDocuments' = MapDelete(textDocuments, f)
  /\ lastOp' = NoOp
  /\ burst' = BurstOther(f)
  /\ UNCHANGED << trackerVars, disk, timers, tasks, activated, query, watch,
                  importCycle >>

\* The handler of onDidChangeTextDocument, g its getDocumentText.
ChangeHandled(g, f, docs) ==
  /\ Commit(g.tr)
  /\ lastOp' = Op("getDocumentText", f, g.value, docs)

\* onDidChangeTextDocument: the buffer of f becomes t, and the handler calls
\* getDocumentText(event.document.uri).
ChangeDocument(f, t) ==
  /\ f \in DOMAIN textDocuments
  /\ t # textDocuments[f]
  /\ textDocuments' = MapSet(textDocuments, f, t)
  /\ ChangeHandled(getDocumentText(Tr, MapSet(textDocuments, f, t), f), f,
                   MapSet(textDocuments, f, t))
  /\ importCycle' = CycleObserved(MapSet(textDocuments, f, t), f)
  /\ burst' = BurstEvent(f)
  /\ UNCHANGED << storeFileToNamesMap, storeNameToFilesMap,
                  componentImportsMap, disk, tasks, activated, query, watch >>

\* onDidSaveTextDocument: the buffer of f is written to disk, and the handler
\* calls invalidateCache(doc.fileName).
SaveDocument(f) ==
  /\ f \in DOMAIN textDocuments
  /\ disk' = MapSet(disk, f, textDocuments[f])
  /\ Commit(invalidateCache(Tr, f))
  /\ lastOp' = Op("invalidateCache", f, None, textDocuments)
  /\ importCycle' = CycleInvalidated(f)
  /\ burst' = BurstEvent(f)
  /\ UNCHANGED << storeFileToNamesMap, storeNameToFilesMap,
                  componentImportsMap, textDocuments, tasks, activated,
                  query, watch >>

\* Another program writes the file, which is not open: nothing tells the
\* tracker.
WriteFile(f, t) ==
  /\ f \notin DOMAIN textDocuments
  /\ f \in DOMAIN disk => disk[f] # t
  /\ disk' = MapSet(disk, f, t)
  /\ lastOp' = NoOp
  /\ burst' = BurstOther(f)
  /\ UNCHANGED << trackerVars, textDocuments, timers, tasks, activated,
                  query, watch, importCycle >>

\* Another program deletes the file, which is not open.
DeleteFile(f) ==
  /\ f \notin DOMAIN textDocuments
  /\ f \in DOMAIN disk
  /\ disk' = MapDelete(disk, f)
  /\ lastOp' = NoOp
  /\ burst' = BurstOther(f)
  /\ UNCHANGED << trackerVars, textDocuments, timers, tasks, activated,
                  query, watch, importCycle >>

\* The files findFiles("**/*.store.{ts}") finds, in the order it gives them.
StoreFilesOnDisk ==
  SelectSeq(<< StorePath, OtherStorePath >>, LAMBDA f : f \in DOMAIN disk)

\* files.map((f) => referenceTracker.analyzeStoreFile(f)) from the state a
\* the calls before left: [tr, idx, tasks, ...].
RECURSIVE AnalyzeAll(_, _)
AnalyzeAll(files, a) ==
  IF files = << >> THEN a
  ELSE AnalyzeAll(Tail(files),
                  analyzeStoreFile(a.tr, a.idx, a.tasks, textDocuments,
                                   Head(files)))

CommitAnalysis(a) ==
  /\ Commit(a.tr)
  /\ CommitIdx(a.idx)
  /\ tasks' = a.tasks

\* activate: findFiles resolves, and every store file is analysed.
Activate ==
  /\ ~activated
  /\ BagCardinality(tasks) + Len(StoreFilesOnDisk) <= MaxTasks
  /\ activated' = TRUE
  /\ CommitAnalysis(AnalyzeAll(StoreFilesOnDisk,
                               [tr |-> Tr, idx |-> Idx, tasks |-> tasks]))
  /\ lastOp' = NoOp
  /\ burst' = BurstOther(StorePath)
  /\ UNCHANGED << componentImportsMap, textDocuments, disk, query, watch,
                  importCycle >>

\* The timers after `step` of time.
Elapse(ts, step) == [i \in DOMAIN ts |-> [ts[i] EXCEPT !.rem = @ - step]]

TickBy(step) ==
  /\ timers' = Elapse(timers, step)
  /\ burst' = IF burst.active
              THEN [burst EXCEPT !.gap = Min(@ + step, AnalysisDelay)]
              ELSE burst

\* Time passes, by no more than what is left of the oldest timer.
Tick ==
  /\ timers # << >> \/ (burst.active /\ burst.gap < AnalysisDelay)
  /\ timers # << >> => Head(timers).rem > 0
  /\ TickBy(IF timers = << >> THEN TimeStep
            ELSE Min(TimeStep, Head(timers).rem))
  /\ lastOp' = NoOp
  /\ UNCHANGED << storeFileToNamesMap, storeNameToFilesMap,
                  componentImportsMap, fileCache, analyzedFiles,
                  pendingAnalysis, textDocuments, disk, tasks, activated,
                  query, watch, importCycle >>

\* The callback of the timer, a its analyzeStoreFile:
\* this.analyzeStoreFile(fileUri); this.pendingAnalysis.delete(filePath).
TimerCallback(a, f) ==
  /\ Commit([a.tr EXCEPT !.pendingAnalysis = MapDelete(@, f)])
  /\ CommitIdx(a.idx)
  /\ tasks' = a.tasks
  /\ lastOp' = IF a.suspended THEN NoOp
               ELSE Op("analyzeStoreFile", f, a.value, textDocuments)

\* The oldest timer is due and fires.
TimerFires ==
  /\ timers # << >>
  /\ Head(timers).rem = 0
  /\ BagCardinality(tasks) < MaxTasks
  /\ TimerCallback(analyzeStoreFile([Tr EXCEPT !.timers = Tail(timers)], Idx,
                                    tasks, textDocuments, Head(timers).file),
                   Head(timers).file)
  /\ burst' = BurstPass(Head(timers).file)
  /\ importCycle' = CycleObserved(textDocuments, Head(timers).file)
  /\ UNCHANGED << componentImportsMap, textDocuments, disk, activated,
                  query, watch >>

\* getDocumentText for a caller outside the tracker, g what it did.
TextAsked(g, f) ==
  /\ g.suspended => BagCardinality(tasks) < MaxTasks
  /\ Commit(g.tr)
  /\ tasks' = IF g.suspended THEN Suspend(tasks, "getDocumentText", f)
              ELSE tasks
  /\ lastOp' = IF g.suspended THEN NoOp
               ELSE Op("getDocumentText", f, g.value, textDocuments)

\* A caller outside the tracker (findStoreDefinitions for the definition
\* provider) asks for the text of f.
GetDocumentText(f) ==
  /\ TextAsked(getDocumentText(Tr, textDocuments, f), f)
  /\ importCycle' = CycleObserved(textDocuments, f)
  /\ burst' = BurstOther(f)
  /\ UNCHANGED << storeFileToNamesMap, storeNameToFilesMap,
                  componentImportsMap, textDocuments, disk, activated,
                  query, watch >>

\* analyzeStoreFile after its getDocumentText resumed with r.
AnalyzeResumed(r, f) ==
  /\ Commit(r.tr)
  /\ CommitIdx(Reindex(Idx, f, r.value))
  /\ lastOp' = Op("analyzeStoreFile", f, r.value, EmptyMap)

\* readFile settles for the suspended analyzeStoreFile k, which goes on to
\* its end.
AnalyzeStoreFileResumes(k) ==
  /\ BagIn(k, tasks)
  /\ k.op = "analyzeStoreFile"
  /\ AnalyzeResumed(getDocumentTextResume(Tr, k.file, k.data), k.file)
  /\ tasks' = tasks (-) SetToBag({k})
  /\ UNCHANGED << componentImportsMap, textDocuments, disk, activated,
                  query, watch, burst, importCycle >>

TextResumed(r, f) ==
  /\ Commit(r.tr)
  /\ lastOp' = Op("readFile", f, r.value, EmptyMap)

\* readFile settles for the suspended getDocumentText k.
GetDocumentTextResumes(k) ==
  /\ BagIn(k, tasks)
  /\ k.op = "getDocumentText"
  /\ TextResumed(getDocumentTextResume(Tr, k.file, k.data), k.file)
  /\ tasks' = tasks (-) SetToBag({k})
  /\ UNCHANGED << storeFileToNamesMap, storeNameToFilesMap,
                  componentImportsMap, textDocuments, disk, activated,
                  query, watch, burst, importCycle >>

(***************************************************************************)
(* The import bindings of a component                                      *)
(***************************************************************************)

\* ensureImportsAnalyzed or analyzeComponentImports returns at its guard.
ImportsSkipped(tr, cim, ts) ==
  [ tr |-> tr, componentImportsMap |-> cim, tasks |-> ts,
    called |-> FALSE, suspended |-> FALSE, scanned |-> FALSE, value |-> None ]

\* analyzeComponentImports once getDocumentText has returned or suspended
\* (g): the scan of the text for imports, unless the text is falsy.
ImportsAfter(g, cim, ts, filePath) ==
  [ tr        |-> IF g.suspended \/ Falsy(g.value) THEN g.tr
                  ELSE [g.tr EXCEPT !.analyzedFiles = @ \cup {filePath}],
    componentImportsMap |->
                  IF g.suspended \/ Falsy(g.value) THEN cim
                  ELSE MapSet(cim, filePath,
                              ImportBindings(filePath, g.value.text,
                                             DOMAIN disk)),
    tasks     |-> IF g.suspended
                  THEN Suspend(ts, "analyzeComponentImports", filePath)
                  ELSE ts,
    called    |-> TRUE,
    suspended |-> g.suspended,
    scanned   |-> ~g.suspended /\ ~Falsy(g.value),
    value     |-> g.value ]

analyzeComponentImports(tr, cim, ts, docs, filePath) ==
  IF filePath \in tr.analyzedFiles THEN ImportsSkipped(tr, cim, ts)
  ELSE ImportsAfter(getDocumentText(tr, docs, filePath), cim, ts, filePath)

\* ensureImportsAnalyzed from its call to its first suspension or its end.
ensureImportsAnalyzed(tr, cim, ts, docs, filePath) ==
  IF filePath \in DOMAIN cim THEN ImportsSkipped(tr, cim, ts)
  ELSE analyzeComponentImports(tr, cim, ts, docs, filePath)

\* The scans of the cycle after a run e of the analysis of f, whose
\* getDocumentText, when called, found the documents `docs`.
CycleAfter(e, docs, f) ==
  IF f # ComponentPath THEN importCycle
  ELSE Min((IF e.called /\ ObservedChange(docs, f) THEN 0 ELSE importCycle)
           + (IF e.scanned THEN 1 ELSE 0),
           MaxCount)

ImportsAnalyzed(e, f, docs) ==
  /\ Commit(e.tr)
  /\ componentImportsMap' = e.componentImportsMap
  /\ tasks' = e.tasks
  /\ lastOp' = IF e.suspended THEN NoOp
               ELSE Op("ensureImportsAnalyzed", f, e.value, docs)
  /\ importCycle' = CycleAfter(e, docs, f)

\* A component query (the definition provider, findImportedStoreReferences)
\* calls ensureImportsAnalyzed(f).
EnsureImportsAnalyzed(f) ==
  /\ BagCardinality(tasks) < MaxTasks
  /\ ImportsAnalyzed(ensureImportsAnalyzed(Tr, componentImportsMap, tasks,
                                           textDocuments, f),
                     f, textDocuments)
  /\ UNCHANGED << storeFileToNamesMap, storeNameToFilesMap, textDocuments,
                  disk, activated, query, watch, burst >>

\* readFile settles for the suspended analyzeComponentImports k, which goes
\* on to its end.
AnalyzeComponentImportsResumes(k) ==
  /\ BagIn(k, tasks)
  /\ k.op = "analyzeComponentImports"
  /\ ImportsAnalyzed(ImportsAfter(getDocumentTextResume(Tr, k.file, k.data),
                                  componentImportsMap,
                                  tasks (-) SetToBag({k}), k.file),
                     k.file, EmptyMap)
  /\ UNCHANGED << storeFileToNamesMap, storeNameToFilesMap, textDocuments,
                  disk, activated, query, watch, burst >>

(***************************************************************************)
(* The reference queries.  One query runs at a time; `query` holds its     *)
(* locals and its position: "findFiles" while vscode.workspace.findFiles   *)
(* is pending, "read" while the readFile of getDocumentText(files[i]) is,  *)
(* "defs" while the one of findStoreDefinitions is, "done" once returned.  *)
(* `scanned` and `begun` observe, when cancellation is requested, how many *)
(* of the files had been scanned and how many scans had begun.             *)
(***************************************************************************)

NoQuery ==
  [ pc |-> "idle", kind |-> "", file |-> "", store |-> "", name |-> "",
    files |-> << >>, i |-> 0, data |-> None, results |-> << >>,
    visited |-> {}, cancelled |-> FALSE, scanned |-> 0, begun |-> 0 ]

\* The lines of a document whose lines end with \n.
Lines(text) == Split(text, "\n")

\* lineText.match(new RegExp(`this\\.(${word})\\b`)).
ThisWordOn(lineText, word) ==
  \E o \in 0..Len(lineText) :
    /\ LitAt(lineText, o, "this." \o word)
    /\ WordBoundary(lineText, o + 5 + Len(word))

\* results.push(...more.results), the visited set being the one `more` left.
Joined(results, more) ==
  [results |-> results \o more.results, visited |-> more.visited]

ImportThenThis(imp, fsPath, content, storeName) ==
  Joined(imp.results,
         findThisStoreReferences(fsPath, content, storeName, imp.visited))

\* The body of the loop of findStoreVariableReferences for a file with
\* content: [results, visited], the results being those of this file.
FileReferences(fsPath, content, storeFilePath, storeName, visited) ==
  IF hasImportedStore(content, storeFilePath, storeName)
  THEN ImportThenThis(findImportReferences(fsPath, content, storeName,
                                           visited),
                      fsPath, content, storeName)
  ELSE [results |-> << >>, visited |-> visited]

\* The query after the iteration of the loop for files[i].
Advance(q, r) ==
  [ q EXCEPT !.results = @ \o r.results, !.visited = r.visited, !.i = @ + 1 ]

\* The iteration of the loop once getDocumentText has given `value`.
ScanContent(q, value) ==
  IF Falsy(value) THEN [q EXCEPT !.i = @ + 1]
  ELSE Advance(q, FileReferences(q.files[q.i], value.text, q.store, q.name,
                                 q.visited))

\* A token that is never cancelled.
NeverCancelled(q) == FALSE

\* token.isCancellationRequested.
isCancellationRequested(q) == q.cancelled

RECURSIVE ScanLoop(_, _, _)
RECURSIVE ScanText(_, _, _)

\* for (const fileUri of allFiles) from files[i] on, to the suspension of a
\* getDocumentText or to the return: [q, tr].
ScanLoop(q, tr, docs) ==
  IF q.i > Len(q.files) \/ isCancellationRequested(q)
  THEN [q |-> [q EXCEPT !.pc = "done"], tr |-> tr]
  ELSE IF q.files[q.i] = q.store
  THEN ScanLoop([q EXCEPT !.i = @ + 1], tr, docs)
  ELSE ScanText(q, getDocumentText(tr, docs, q.files[q.i]), docs)

\* The iteration for files[i] once getDocumentText has returned or
\* suspended (g), and the rest of the loop.
ScanText(q, g, docs) ==
  IF g.suspended
  THEN [ q  |-> [q EXCEPT !.pc = "read", !.data = ReadFile(q.files[q.i])],
         tr |-> g.tr ]
  ELSE ScanLoop(ScanContent(q, g.value), g.tr, docs)

\* findStoreDefinitions once getDocumentText has given `value`.
findStoreDefinitions(storeFilePath, value, storeName) ==
  IF Falsy(value) THEN << >>
  ELSE DefinitionLocations(storeFilePath, value.text, storeName)

\* findStoreVariableReferences to its await of findFiles; g is the
\* getDocumentText of findStoreDefinitions, on the queried document.
StoreQuery(g, f, w) ==
  [ q  |-> [ NoQuery EXCEPT
               !.pc = "findFiles", !.kind = "store", !.file = f,
               !.store = f, !.name = w,
               !.results = findStoreDefinitions(f, g.value, w) ],
    tr |-> g.tr,
    componentImportsMap |-> componentImportsMap,
    scanned |-> FALSE, called |-> FALSE ]

\* A query that returns `results` now.
Answer(q, results, tr, cim, e) ==
  [ q  |-> [q EXCEPT !.pc = "done", !.results = results],
    tr |-> tr, componentImportsMap |-> cim,
    scanned |-> e.scanned, called |-> e.called ]

\* The end of findImportedStoreReferences: the definitions, then the
\* this-references of the component, c being its getDocumentText.
ComponentReferences(q, defs, c, cim, e) ==
  Answer(q,
         IF Falsy(c.value) THEN defs
         ELSE defs \o findThisStoreReferences(q.file, c.value.text, q.name,
                                              {}).results,
         c.tr, cim, e)

\* findImportedStoreReferences from findStoreDefinitions on; g is its
\* getDocumentText, of the store file.
ComponentDefinitions(q, g, docs, cim, e) ==
  IF g.suspended
  THEN [ q  |-> [q EXCEPT !.pc = "defs", !.data = ReadFile(q.store)],
         tr |-> g.tr, componentImportsMap |-> cim,
         scanned |-> e.scanned, called |-> e.called ]
  ELSE ComponentReferences(q, findStoreDefinitions(q.store, g.value, q.name),
                           getDocumentText(g.tr, docs, q.file), cim, e)

\* findImportedStoreReferences after ensureImportsAnalyzed (e), which the
\* open document lets run to its end.
ComponentQuery(e, docs, f, w) ==
  IF f \notin DOMAIN e.componentImportsMap
     \/ w \notin DOMAIN e.componentImportsMap[f]
  THEN Answer([NoQuery EXCEPT !.kind = "component", !.file = f, !.name = w],
              << >>, e.tr, e.componentImportsMap, e)
  ELSE ComponentDefinitions(
         [ NoQuery EXCEPT !.kind = "component", !.file = f, !.name = w,
                          !.store = e.componentImportsMap[f][w] ],
         getDocumentText(e.tr, docs, e.componentImportsMap[f][w]),
         docs, e.componentImportsMap, e)

\* provideReferences(document, position, token) for the document f, the
\* word w under the position and the text lineText of the line.
provideReferences(tr, idx, cim, docs, f, w, lineText) ==
  IF isStoreFile(f) /\ isStoreVariable(idx, f, w)
  THEN StoreQuery(getDocumentText(tr, docs, f), f, w)
  ELSE IF ThisWordOn(lineText, w)
  THEN ComponentQuery(ensureImportsAnalyzed(tr, cim, << >>, docs, f),
                      docs, f, w)
  ELSE Answer([NoQuery EXCEPT !.file = f, !.name = w], << >>, tr, cim,
              [scanned |-> FALSE, called |-> FALSE])

QueryStep(s) ==
  /\ query' = s.q
  /\ Commit(s.tr)

QueryStarted(s, f) ==
  /\ QueryStep(s)
  /\ componentImportsMap' = s.componentImportsMap
  /\ importCycle' = CycleAfter(s, textDocuments, f)
  /\ lastOp' = IF s.q.pc = "done"
               THEN Op("provideReferences", f, None, textDocuments)
               ELSE NoOp

\* The words a reference query is asked for.
QueryWords == { "count", "export", "sum" }

\* The user asks for the references of the word w on line l of the open
\* document f.
ProvideReferences(f, w, l) ==
  /\ query.pc \in {"idle", "done"}
  /\ f \in DOMAIN textDocuments
  /\ l \in DOMAIN Lines(textDocuments[f])
  /\ Includes(Lines(textDocuments[f])[l], w)
  /\ QueryStarted(provideReferences(Tr, Idx, componentImportsMap,
                                    textDocuments, f, w,
                                    Lines(textDocuments[f])[l]), f)
  /\ burst' = BurstOther(f)
  /\ UNCHANGED << storeFileToNamesMap, storeNameToFilesMap, textDocuments,
                  disk, tasks, activated, watch >>

\* The files findFiles("**/*.{ts}") finds, in the order it gives them.
WorkspaceFiles ==
  SelectSeq(<< StorePath, OtherStorePath, ComponentPath, SecondComponentPath,
               ThirdComponentPath >>,
            LAMBDA f : f \in DOMAIN disk)

\* findFiles resolves for findStoreVariableReferences, which runs its loop
\* to the first getDocumentText that suspends, or to its return.
FindFilesResolves ==
  /\ query.pc = "findFiles"
  /\ QueryStep(ScanLoop([query EXCEPT !.files = WorkspaceFiles, !.i = 1],
                        Tr, textDocuments))
  /\ lastOp' = NoOp
  /\ UNCHANGED << storeFileToNamesMap, storeNameToFilesMap,
                  componentImportsMap, textDocuments, disk, tasks,
                  activated, watch, burst, importCycle >>

ScanAfterRead(q, r, docs) == ScanLoop(ScanContent(q, r.value), r.tr, docs)

\* readFile settles for the getDocumentText of the loop, which goes on.
ScanReadResumes ==
  /\ query.pc = "read"
  /\ QueryStep(ScanAfterRead(query,
                             getDocumentTextResume(Tr, query.files[query.i],
                                                   query.data),
                             textDocuments))
  /\ lastOp' = NoOp
  /\ UNCHANGED << storeFileToNamesMap, storeNameToFilesMap,
                  componentImportsMap, textDocuments, disk, tasks,
                  activated, watch, burst, importCycle >>

DefinitionsAfterRead(q, r, docs) ==
  ComponentReferences(q, findStoreDefinitions(q.store, r.value, q.name),
                      getDocumentText(r.tr, docs, q.file),
                      componentImportsMap,
                      [scanned |-> FALSE, called |-> FALSE])

\* readFile settles for the getDocumentText of findStoreDefinitions in
\* findImportedStoreReferences, which goes on to its end.
DefinitionsReadResumes ==
  /\ query.pc = "defs"
  /\ QueryStep(DefinitionsAfterRead(query,
                                    getDocumentTextResume(Tr, query.store,
                                                          query.data),
                                    textDocuments))
  /\ importCycle' = CycleObserved(textDocuments, query.file)
  /\ lastOp' = Op("findStoreDefinitions", query.store, query.data, EmptyMap)
  /\ UNCHANGED << storeFileToNamesMap, storeNameToFilesMap,
                  componentImportsMap, textDocuments, disk, tasks,
                  activated, watch, burst >>

\* The user cancels the query: token.isCancellationRequested becomes true.
Cancel ==
  /\ query.pc \in {"findFiles", "read", "defs"}
  /\ ~query.cancelled
  /\ query' = [ query EXCEPT
                  !.cancelled = TRUE,
                  !.scanned = IF query.pc = "read" THEN query.i - 1 ELSE 0,
                  !.begun = IF query.pc = "read" THEN query.i ELSE 0 ]
  /\ lastOp' = NoOp
  /\ UNCHANGED << trackerVars, hostVars, watch, burst, importCycle >>

(***************************************************************************)
(* Spec: the tracker while the store file is rewritten on disk, opened,    *)
(* edited and saved.  A document, once open, stays open.                   *)
(***************************************************************************)

InitTracker ==
  /\ storeFileToNamesMap = EmptyMap
  /\ storeNameToFilesMap = EmptyMap
  /\ componentImportsMap = EmptyMap
  /\ fileCache = EmptyMap
  /\ analyzedFiles = {}
  /\ pendingAnalysis = EmptyMap
  /\ textDocuments = EmptyMap
  /\ timers = << >>
  /\ tasks = EmptyBag
  /\ activated = FALSE
  /\ query = NoQuery
  /\ lastOp = NoOp
  /\ burst = NoBurst
  /\ importCycle = 0

InitDisk ==
  disk = [ f \in {StorePath, OtherStorePath, ComponentPath} |->
             IF f = ComponentPath
             THEN "import { count } from \"./c.store\";\nthis.count;\n"
             ELSE "export const count = 0;\n" ]

Init == InitTracker /\ InitDisk /\ watch = "ops"

Next ==
  \/ OpenDocument(StorePath)
  \/ \E t \in StoreTexts : ChangeDocument(StorePath, t)
  \/ SaveDocument(StorePath)
  \/ \E t \in StoreTexts : WriteFile(StorePath, t)
  \/ DeleteFile(StorePath)
  \/ Activate
  \/ Tick
  \/ TimerFires
  \/ GetDocumentText(StorePath)
  \/ \E k \in BagToSet(tasks) : AnalyzeStoreFileResumes(k)
  \/ \E k \in BagToSet(tasks) : GetDocumentTextResumes(k)

Spec == Init /\ [][Next]_vars

\* The same, with the bursts of change events observed instead of the
\* handlers.
InitBurst == InitTracker /\ InitDisk /\ watch = "burst"

SpecBurst == InitBurst /\ [][Next]_vars

(***************************************************************************)
(* SpecImports: the tracker while the component is rewritten on disk,      *)
(* opened, edited and saved, and queried for its import bindings.          *)
(***************************************************************************)

NextImports ==
  \/ OpenDocument(ComponentPath)
  \/ \E t \in ComponentTexts : ChangeDocument(ComponentPath, t)
  \/ SaveDocument(ComponentPath)
  \/ \E t \in ComponentTexts : WriteFile(ComponentPath, t)
  \/ EnsureImportsAnalyzed(ComponentPath)
  \/ \E k \in BagToSet(tasks) : AnalyzeComponentImportsResumes(k)
  \/ \E w \in QueryWords :
       \E l \in DOMAIN Lines(ContentOf(ComponentPath)) :
         ProvideReferences(ComponentPath, w, l)
  \/ DefinitionsReadResumes

SpecImports == Init /\ [][NextImports]_vars

(***************************************************************************)
(* SpecScan: reference queries, and their cancellation, on a workspace of  *)
(* one store file and three components that nothing edits.                 *)
(***************************************************************************)

InitScan ==
  /\ InitTracker
  /\ watch = "ops"
  /\ \E st \in ScanStoreTexts, ct \in ScanComponentTexts :
       disk = [ f \in { StorePath, ComponentPath, SecondComponentPath,
                        ThirdComponentPath } |->
                  IF f = StorePath THEN st
                  ELSE IF f = ComponentPath THEN ct
                  ELSE PlainComponentText ]

NextScan ==
  \/ \E f \in {StorePath, ComponentPath} : OpenDocument(f)
  \/ Activate
  \/ \E k \in BagToSet(tasks) : AnalyzeStoreFileResumes(k)
  \/ Tick
  \/ TimerFires
  \/ \E f \in DOMAIN textDocuments, w \in QueryWords :
       \E l \in DOMAIN Lines(textDocuments[f]) : ProvideReferences(f, w, l)
  \/ FindFilesResolves
  \/ ScanReadResumes
  \/ DefinitionsReadResumes
  \/ Cancel

SpecScan == InitScan /\ [][NextScan]_vars

(***************************************************************************)
(* SpecDefinitions: findStoreDefinitions on the texts of a store file that *)
(* declare one name once or twice, asked for one name.                     *)
(***************************************************************************)

\* The names declared and asked for: `count`, and names that are parts of
\* `export`, `const`, `let` and `var`.
DefinitionNames == { "count", "port", "on", "le", "ar" }

DeclKeywords == { "const", "let", "var" }

Declaration(kw, n) == "export " \o kw \o " " \o n \o " = 0;\n"

DefinitionTexts ==
  { Declaration(kw, n) : kw \in DeclKeywords, n \in DefinitionNames }
  \cup { Declaration("const", n) \o Declaration("let", n) :
           n \in DefinitionNames }

InitDefinitions ==
  /\ storeFileToNamesMap = EmptyMap
  /\ storeNameToFilesMap = EmptyMap
  /\ componentImportsMap = EmptyMap
  /\ fileCache = EmptyMap
  /\ analyzedFiles = {}
  /\ pendingAnalysis = EmptyMap
  /\ timers = << >>
  /\ tasks = EmptyBag
  /\ activated = FALSE
  /\ lastOp = NoOp
  /\ burst = NoBurst
  /\ importCycle = 0
  /\ watch = "ops"
  /\ \E t \in DefinitionTexts :
       /\ disk = [f \in {StorePath} |-> t]
       /\ textDocuments = [f \in {StorePath} |-> t]
  /\ \E n \in DefinitionNames :
       query = [NoQuery EXCEPT !.file = StorePath, !.store = StorePath,
                               !.name = n]

\* findStoreDefinitions(storeFile, storeName) on the open store file.
FindStoreDefinitions ==
  /\ query.pc = "idle"
  /\ query' = [ query EXCEPT
                  !.pc = "done",
                  !.results =
                    findStoreDefinitions(
                      query.store,
                      getDocumentText(Tr, textDocuments, query.store).value,
                      query.name) ]
  /\ Commit(getDocumentText(Tr, textDocuments, query.store).tr)
  /\ lastOp' = Op("findStoreDefinitions", query.store, None, textDocuments)
  /\ UNCHANGED << storeFileToNamesMap, storeNameToFilesMap,
                  componentImportsMap, textDocuments, disk, tasks, activated,
                  watch, burst, importCycle >>

NextDefinitions == FindStoreDefinitions

SpecDefinitions == InitDefinitions /\ [][NextDefinitions]_vars

(***************************************************************************)
(* SpecLive: the store file is opened, edited and saved a bounded number   *)
(* of times; time passes, due timers fire and reads settle.                *)
(***************************************************************************)

\* The texts the buffer of the store file goes through, in this order.
EditOrder ==
  << "export const count = 0;\n", "export let total = 1;\n", "" >>

Later(t, u) ==
  \E i, j \in DOMAIN EditOrder : i < j /\ EditOrder[i] = t /\ EditOrder[j] = u

\* An edit that takes the buffer further along EditOrder.
EditForward ==
  \E t \in StoreTexts :
    /\ StorePath \in DOMAIN textDocuments
    /\ Later(textDocuments[StorePath], t)
    /\ ChangeDocument(StorePath, t)

\* A save of the buffer when it differs from the file.
SaveDirty ==
  /\ StorePath \in DOMAIN textDocuments
  /\ disk[StorePath] # textDocuments[StorePath]
  /\ SaveDocument(StorePath)

ReadSettles == \E k \in BagToSet(tasks) : AnalyzeStoreFileResumes(k)

NextLive ==
  \/ OpenDocument(StorePath)
  \/ EditForward
  \/ SaveDirty
  \/ Activate
  \/ Tick
  \/ TimerFires
  \/ ReadSettles

\* A timer is due: its callback is in the queue of the event loop.
TimerDue == timers # << >> /\ Head(timers).rem = 0

\* The event loop runs: the clock advances while a timer is outstanding
\* (WF of Tick); a due timer does not stay in the queue for ever, a read
\* does not stay in flight for ever, and findFiles resolves.  The last three
\* are what weak fairness of TimerFires, ReadSettles and Activate gives
\* here, where the events are bounded, stated on the states the actions
\* lead to.
SpecLive ==
  /\ Init
  /\ [][NextLive]_vars
  /\ WF_vars(Tick)
  /\ []<>(~TimerDue)
  /\ []<>(tasks = EmptyBag)
  /\ []<>activated

(***************************************************************************)
(* SpecEdits: the store file is opened and edited, never saved; the only   *)
(* other reindex is the sweep of activate.                                 *)
(***************************************************************************)

NextEdits ==
  \/ OpenDocument(StorePath)
  \/ \E t \in StoreTexts : ChangeDocument(StorePath, t)
  \/ Activate
  \/ ReadSettles
  \/ Tick
  \/ TimerFires

SpecEdits == Init /\ [][NextEdits]_vars

(***************************************************************************)
(* SpecReads: getDocumentText is asked for the store file while it is      *)
(* closed; the file is opened, edited, saved and closed between the reads. *)
(***************************************************************************)

\* The document is closed with nothing unsaved.
CloseSaved ==
  /\ StorePath \in DOMAIN textDocuments
  /\ disk[StorePath] = textDocuments[StorePath]
  /\ CloseDocument(StorePath)

\* An edit further along EditOrder that leaves a text in the buffer.
EditToText == EditForward /\ textDocuments'[StorePath] # ""

NextReads ==
  \/ GetDocumentText(StorePath)
  \/ \E k \in BagToSet(tasks) : GetDocumentTextResumes(k)
  \/ OpenDocument(StorePath)
  \/ EditToText
  \/ SaveDirty
  \/ CloseSaved
  \/ Tick
  \/ TimerFires
  \/ ReadSettles

SpecReads == Init /\ [][NextReads]_vars

(***************************************************************************)
(* SpecNoText: the store file is edited down to the empty text, saved,     *)
(* closed and deleted while its reindex is scheduled.                      *)
(***************************************************************************)

NextNoText ==
  \/ OpenDocument(StorePath)
  \/ EditForward
  \/ SaveDirty
  \/ CloseSaved
  \/ DeleteFile(StorePath)
  \/ Activate
  \/ Tick
  \/ TimerFires
  \/ ReadSettles

SpecNoText == Init /\ [][NextNoText]_vars

(***************************************************************************)
(* SpecMissing: the tracker while the store file is saved, closed and      *)
(* deleted, and the component that imports from it is queried.             *)
(***************************************************************************)

NextMissing ==
  \/ \E f \in {StorePath, ComponentPath} : OpenDocument(f)
  \/ SaveDocument(StorePath)
  \/ CloseDocument(StorePath)
  \/ DeleteFile(StorePath)
  \/ Activate
  \/ Tick
  \/ TimerFires
  \/ \E k \in BagToSet(tasks) : AnalyzeStoreFileResumes(k)
  \/ ProvideReferences(ComponentPath, "count", 2)
  \/ DefinitionsReadResumes

SpecMissing == Init /\ [][NextMissing]_vars

(***************************************************************************)
(* Properties of Spec                                                      *)
(***************************************************************************)

\* C1: at every boundary between handlers, a file is in the reverse entry of
\* a name exactly when the name is in the forward entry of the file, and no
\* reverse entry is empty.
IndexConsistent ==
  /\ \A f \in DOMAIN storeFileToNamesMap :
       \A n \in storeFileToNamesMap[f] :
         n \in DOMAIN storeNameToFilesMap /\ f \in storeNameToFilesMap[n]
  /\ \A n \in DOMAIN storeNameToFilesMap :
       /\ storeNameToFilesMap[n] # {}
       /\ \A f \in storeNameToFilesMap[n] :
            f \in DOMAIN storeFileToNamesMap /\ n \in storeFileToNamesMap[f]

\* A reindex has taken `count` out of the store file's entries while the
\* other store file keeps it, and has put `total` in.
IndexConsistentWitness ==
  /\ StorePath \in DOMAIN storeFileToNamesMap
  /\ storeFileToNamesMap[StorePath] = {"total"}
  /\ "count" \in DOMAIN storeNameToFilesMap
  /\ storeNameToFilesMap["count"] = {OtherStorePath}
  /\ storeNameToFilesMap["total"] = {StorePath}

\* C2: no file has more than one outstanding reindex timer.
OneTimerPerFile ==
  \A i, j \in DOMAIN timers : timers[i].file = timers[j].file => i = j

\* The names the texts of the store file export.
StoreNames == UNION { ExportedNames(t) : t \in StoreTexts }

\* C6: once a reindex of the store file has run on a text, a name the text
\* does not export is neither in the forward entry of the file nor has the
\* file in its reverse entry, and a name the text exports is in both.
RoundTrip ==
  (lastOp.op = "analyzeStoreFile" /\ lastOp.value.ok)
  => \A n \in StoreNames :
       /\ isStoreVariable(Idx, lastOp.file, n)
          <=> n \in ExportedNames(lastOp.value.text)
       /\ (n \in DOMAIN storeNameToFilesMap
           /\ lastOp.file \in storeNameToFilesMap[n])
          <=> n \in ExportedNames(lastOp.value.text)

\* C7: a getDocumentText called on a file with an open buffer returns the
\* text of the buffer, and leaves the cache entry equal to it.
OpenBufferWins ==
  (lastOp.op \in {"getDocumentText", "analyzeStoreFile"} /\ lastOp.open)
  => /\ lastOp.value = Some(textDocuments[lastOp.file])
     /\ lastOp.file \in DOMAIN fileCache
     /\ fileCache[lastOp.file] = textDocuments[lastOp.file]

\* getDocumentText has returned the buffer while the cache held another
\* text than the buffer.
OpenBufferWinsWitness ==
  /\ lastOp.op = "getDocumentText"
  /\ lastOp.open
  /\ lastOp.stale
  /\ lastOp.value = Some(textDocuments[lastOp.file])
  /\ fileCache[lastOp.file] = textDocuments[lastOp.file]

(***************************************************************************)
(* Properties of SpecBurst                                                 *)
(***************************************************************************)

\* C3: when a burst of change events on the store file has settled (no
\* reindex of the file scheduled or in flight), it has caused exactly one
\* run of analyzeStoreFile.
BurstOnePass ==
  (burst.active /\ burst.ok /\ Quiet(timers, tasks, StorePath))
  => burst.passes = 1

(***************************************************************************)
(* Properties of SpecImports                                               *)
(***************************************************************************)

\* C4: an ensureImportsAnalyzed called on the component while its buffer is
\* open (and not empty) leaves the bindings computed from the text of the
\* buffer, whatever invalidation came before.
BindingsCurrent ==
  (lastOp.op = "ensureImportsAnalyzed" /\ lastOp.open)
  => /\ lastOp.file \in DOMAIN componentImportsMap
     /\ componentImportsMap[lastOp.file]
          = ImportBindings(lastOp.file, textDocuments[lastOp.file],
                           DOMAIN disk)

\* C5: the text of the component is scanned for imports at most once
\* between two invalidations.
OneScanPerCycle == importCycle <= 1

(***************************************************************************)
(* Properties of SpecScan                                                  *)
(***************************************************************************)

\* The names an import clause brings: the first word of each of its parts.
ImportedNames(block) ==
  LET parts == Split(block, ",")
  IN  { Slice(Trim(parts[i]), 0, SkipWord(Trim(parts[i]), 0)) :
          i \in DOMAIN parts }

\* The offsets of the tokens `name` of text between `from` and `to`.
TokenOffsets(text, from, to, name) ==
  { o \in from..(to - Len(name)) :
      /\ LitAt(text, o, name)
      /\ WordBoundary(text, o)
      /\ WordBoundary(text, o + Len(name)) }

\* The base name of the store file, its extension stripped.
StoreBaseName(storeFile) ==
  IF EndsWith(Basename(storeFile), ".ts")
  THEN Slice(Basename(storeFile), 0, Len(Basename(storeFile)) - 3)
  ELSE Basename(storeFile)

\* The import statements of the text that bring `name` from the store file:
\* the base name of the store file appears in the module specifier, and
\* `name` is one of the names of the clause.
QualifyingImports(text, storeFile, name) ==
  LET ms == IMPORT_PATTERN(text, 0)
  IN  { ms[i] : i \in { k \in DOMAIN ms :
          /\ Includes(ms[k].path, StoreBaseName(storeFile))
          /\ name \in ImportedNames(ms[k].block) } }

\* What the query for `name` of the store file is to return from `file`:
\* when the file imports the name from the store file, the tokens `name` of
\* the clauses of those imports and every this.<name>.
ExpectedOfFile(file, text, storeFile, name) ==
  LET qs == QualifyingImports(text, storeFile, name)
      ts == ThisMatches(text, 0, name)
  IN  IF qs = {} THEN {}
      ELSE { Location(file, text, o, o + Len(name)) :
               o \in UNION { TokenOffsets(text, m.index + IndexOf(m.all, "{"),
                                          m.index + IndexOf(m.all, "}"), name)
                             : m \in qs } }
           \cup { Location(file, text, ts[i].index + 5,
                           ts[i].index + 5 + Len(name)) : i \in DOMAIN ts }

Range(seq) == { seq[i] : i \in DOMAIN seq }

\* C8: a query for a name of the store file that is not cancelled returns
\* the definitions of the name and, from each other file, what
\* ExpectedOfFile says, and nothing else.
ReferencesExact ==
  (query.pc = "done" /\ query.kind = "store" /\ ~query.cancelled)
  => Range(query.results)
       = Range(DefinitionLocations(query.store, ContentOf(query.store),
                                   query.name))
         \cup UNION { ExpectedOfFile(f, ContentOf(f), query.store, query.name)
                      : f \in DOMAIN disk \ {query.store} }

\* C9: no two locations a query returns have the same file, start line and
\* start column.
NoDuplicates ==
  query.pc = "done"
  => \A i, j \in DOMAIN query.results :
       VisitedKey(query.results[i]) = VisitedKey(query.results[j]) => i = j

\* What the loop collects from `files`, on top of acc = [results, visited].
RECURSIVE ReferencesOfFiles(_, _, _, _)
ReferencesOfFiles(files, storeFile, name, acc) ==
  IF files = << >> THEN acc.results
  ELSE IF Head(files) = storeFile \/ ContentOf(Head(files)) = ""
  THEN ReferencesOfFiles(Tail(files), storeFile, name, acc)
  ELSE ReferencesOfFiles(
         Tail(files), storeFile, name,
         Joined(acc.results,
                FileReferences(Head(files), ContentOf(Head(files)),
                               storeFile, name, acc.visited)))

\* The definitions, and the references of the first n of the files.
ScanOf(q, n) ==
  ReferencesOfFiles(SubSeq(q.files, 1, n), q.store, q.name,
                    [ results |-> DefinitionLocations(q.store,
                                                      ContentOf(q.store),
                                                      q.name),
                      visited |-> {} ])

\* C10, as stated: a cancelled scan returns the definitions and the
\* references of the files that had been scanned when the cancellation was
\* requested, and of no later file.
CancelledScanExact ==
  (query.pc = "done" /\ query.kind = "store" /\ query.cancelled)
  => query.results = ScanOf(query, query.scanned)

\* C10, amended: a cancelled scan returns the definitions and the
\* references of the files whose scan had begun when the cancellation was
\* requested (the one whose text was being read included), and of no later
\* file.
CancelledScanStops ==
  (query.pc = "done" /\ query.kind = "store" /\ query.cancelled)
  => query.results = ScanOf(query, query.begun)

\* The scan was cancelled while the text of the first component was being
\* read, and has returned the definition and the references of that
\* component only, two more components being left.
CancelledScanStopsWitness ==
  /\ query.pc = "done"
  /\ query.kind = "store"
  /\ query.cancelled
  /\ query.begun = 2
  /\ query.files[2] = ComponentPath
  /\ disk[ComponentPath] = WidgetText
  /\ Len(query.files) = 4
  /\ Len(query.results) > 1
  /\ \A i \in DOMAIN query.results :
       query.results[i].file \in {StorePath, ComponentPath}

\* The name the store exports for the name `alias` the text binds: the
\* first word of the part of an import clause that binds `alias`.
RECURSIVE OriginalIn(_, _)
OriginalIn(parts, alias) ==
  IF parts = << >> THEN alias
  ELSE IF ImportAlias(Trim(Head(parts))) = alias
  THEN Slice(Trim(Head(parts)), 0, SkipWord(Trim(Head(parts)), 0))
  ELSE OriginalIn(Tail(parts), alias)

RECURSIVE OriginalOf(_, _)
OriginalOf(ms, alias) ==
  IF ms = << >> THEN alias
  ELSE IF alias \in { ImportAlias(Trim(Split(Head(ms).block, ",")[i])) :
                        i \in DOMAIN Split(Head(ms).block, ",") }
  THEN OriginalIn(Split(Head(ms).block, ","), alias)
  ELSE OriginalOf(Tail(ms), alias)

\* What the query for `name` of the component `file` is to return: nothing
\* when the imports of the file do not bind the name to a store file, else
\* the definitions, in that store file, of the export the name stands for
\* and the this.<name> of the component.
ExpectedOfComponent(file, name, bindings) ==
  IF name \notin DOMAIN bindings THEN {}
  ELSE Range(DefinitionLocations(
               bindings[name], ContentOf(bindings[name]),
               OriginalOf(IMPORT_PATTERN(ContentOf(file), 0), name)))
       \cup Range(findThisStoreReferences(file, ContentOf(file), name,
                                          {}).results)

\* C11: a query for a name of a component returns what ExpectedOfComponent
\* says, and nothing else.
ComponentExact ==
  (query.pc = "done" /\ query.kind = "component")
  => Range(query.results)
       = ExpectedOfComponent(query.file, query.name,
                             ImportBindings(query.file, ContentOf(query.file),
                                            DOMAIN disk))

\* C12: a query that returns at once, for a name that the current text of
\* the queried store file does not export, or that the current text of the
\* queried component does not import from a store file, returns nothing.
NoStaleReferences ==
  (/\ lastOp.op = "provideReferences"
   /\ query.pc = "done"
   /\ \/ /\ query.kind = "store"
         /\ query.name \notin ExportedNames(ContentOf(query.file))
      \/ /\ query.kind = "component"
         /\ query.name \notin
              DOMAIN ImportBindings(query.file, ContentOf(query.file),
                                    DOMAIN disk))
  => query.results = << >>

\* The files and the names isStoreVariable is asked about: those of the
\* workspace, and one file and one name no text has.
AskedFiles == {StorePath, OtherStorePath, ComponentPath, SecondComponentPath}

AskedNames == StoreNames \cup {"nothing"}

\* C14: when analyzeStoreFile has run on a text with exported names, the
\* forward entry of the file is the set of the names the text exports and
\* isStoreVariable is true of each; and isStoreVariable is false of a file
\* with no forward entry and of a name its entry has not.
ReindexRecords ==
  /\ (/\ lastOp.op = "analyzeStoreFile"
      /\ lastOp.value.ok
      /\ ExportedNames(lastOp.value.text) # {})
     => /\ lastOp.file \in DOMAIN storeFileToNamesMap
        /\ storeFileToNamesMap[lastOp.file] = ExportedNames(lastOp.value.text)
        /\ \A n \in ExportedNames(lastOp.value.text) :
             isStoreVariable(Idx, lastOp.file, n)
  /\ \A f \in AskedFiles : \A n \in AskedNames :
       isStoreVariable(Idx, f, n)
         = (/\ f \in DOMAIN storeFileToNamesMap
            /\ n \in storeFileToNamesMap[f])

\* analyzeStoreFile has run on a text of the store file that exports `total`
\* after one that exported `count`.
ReindexRecordsWitness ==
  /\ lastOp.op = "analyzeStoreFile"
  /\ lastOp.file = StorePath
  /\ lastOp.value.ok
  /\ ExportedNames(lastOp.value.text) = {"total"}
  /\ "count" \in DOMAIN storeNameToFilesMap
  /\ isStoreVariable(Idx, StorePath, "total")
  /\ ~isStoreVariable(Idx, StorePath, "nothing")
  /\ ~isStoreVariable(Idx, SecondComponentPath, "total")

(***************************************************************************)
(* Properties of SpecDefinitions                                           *)
(***************************************************************************)

\* The spans of the identifier of every `export (const|let|var) <name>` of
\* the text, in the order of the text.
IdentifierSpans(file, text, name) ==
  LET ms == DefinitionMatches(text, 0, name)
  IN  [ i \in DOMAIN ms |->
          Location(file, text, ms[i].end - Len(name), ms[i].end) ]

\* C15: findStoreDefinitions returns one location for every
\* `export (const|let|var) <name>` of the text, and the span of each is the
\* identifier of the declaration, whatever the name.
DefinitionSpans ==
  query.pc = "done"
  => query.results
       = IdentifierSpans(query.store, textDocuments[query.store], query.name)

(***************************************************************************)
(* Properties of SpecLive                                                  *)
(***************************************************************************)

\* A reindex of the file is scheduled: what a save and an edit leave.
Scheduled(f) == \E i \in DOMAIN timers : timers[i].file = f

\* No reindex of the file is scheduled, and the forward and the reverse
\* entries of the file are the names its current text exports.
Refreshed(f) ==
  /\ ~Scheduled(f)
  /\ (IF f \in DOMAIN storeFileToNamesMap THEN storeFileToNamesMap[f] ELSE {})
       = ExportedNames(ContentOf(f))
  /\ \A n \in StoreNames :
       (n \in DOMAIN storeNameToFilesMap /\ f \in storeNameToFilesMap[n])
         <=> n \in ExportedNames(ContentOf(f))

\* C16: after a save or an edit of the store file, once no further event
\* comes, no reindex of the file stays scheduled and its index entries are
\* the names its current text exports.
EventualRefresh == Scheduled(StorePath) ~> Refreshed(StorePath)

(***************************************************************************)
(* Properties of SpecEdits                                                 *)
(***************************************************************************)

\* C17: once the sweep of activate is over, with change events and no save,
\* the forward and the reverse maps stay as they are.
ChangeLeavesIndex ==
  [][ (activated /\ tasks = EmptyBag)
      => UNCHANGED << storeFileToNamesMap, storeNameToFilesMap >> ]_vars

(***************************************************************************)
(* Properties of SpecReads                                                 *)
(***************************************************************************)

\* The store file is closed, and the read of a getDocumentText has just
\* settled with the text the file has on disk, which the cache now holds.
NewestCached ==
  /\ StorePath \notin DOMAIN textDocuments
  /\ StorePath \in DOMAIN disk
  /\ lastOp.op = "readFile"
  /\ lastOp.file = StorePath
  /\ lastOp.value = Some(disk[StorePath])
  /\ StorePath \in DOMAIN fileCache
  /\ fileCache[StorePath] = disk[StorePath]

\* C18: once a read of the closed store file has stored the text the file
\* has on disk since the last save, no read started before that save stores
\* its older text into the cache.
NoStaleOverwrite ==
  [][ (NewestCached /\ StorePath \notin DOMAIN textDocuments')
      => /\ StorePath \in DOMAIN fileCache'
         /\ fileCache'[StorePath] = disk'[StorePath] ]_vars

(***************************************************************************)
(* Properties of SpecNoText                                                *)
(***************************************************************************)

\* C19: an analyzeStoreFile whose getDocumentText gave undefined or the
\* empty string leaves the forward and the reverse maps as they were, and
\* every name isStoreVariable reported for the file is still reported.
NoTextNoReindex ==
  [][ (lastOp'.op = "analyzeStoreFile" /\ Falsy(lastOp'.value))
      => /\ UNCHANGED << storeFileToNamesMap, storeNameToFilesMap >>
         /\ \A n \in StoreNames :
              isStoreVariable(Idx, lastOp'.file, n)
              => isStoreVariable(
                   [ storeFileToNamesMap |-> storeFileToNamesMap',
                     storeNameToFilesMap |-> storeNameToFilesMap' ],
                   lastOp'.file, n) ]_vars

\* analyzeStoreFile has run on the empty text of the store file, and `total`
\* is still reported for the file.
NoTextNoReindexWitness ==
  /\ lastOp.op = "analyzeStoreFile"
  /\ lastOp.file = StorePath
  /\ lastOp.value = Some("")
  /\ StorePath \in DOMAIN textDocuments
  /\ textDocuments[StorePath] = ""
  /\ isStoreVariable(Idx, StorePath, "total")

(***************************************************************************)
(* Properties of SpecMissing                                               *)
(***************************************************************************)

\* The query for a name of the component has returned after the read of
\* the store file the name is bound to failed.
StoreReadFailed ==
  /\ query.pc = "done"
  /\ query.kind = "component"
  /\ lastOp.op = "findStoreDefinitions"
  /\ lastOp.file = query.store
  /\ ~lastOp.value.ok

\* The getDocumentText of analyzeStoreFile has returned without a text to
\* return.
TextAbsent ==
  /\ lastOp.op = "analyzeStoreFile"
  /\ lastOp.file \notin DOMAIN fileCache

\* C13, as stated: a reference query for a name bound to a store file that
\* cannot be read returns nothing.
MissingStoreEmpty == StoreReadFailed => query.results = << >>

\* C13, amended: a getDocumentText that has no text to return returns
\* undefined; the reindex of a file whose text is absent leaves the index as
\* it was; and a reference query for a name bound to a store file that
\* cannot be read returns no location of that file, only the this.<name> of
\* the component.
MissingFileDegrades ==
  [][ /\ TextAbsent' => lastOp'.value = None
      /\ TextAbsent'
         => UNCHANGED << storeFileToNamesMap, storeNameToFilesMap >>
      /\ StoreReadFailed'
         => query'.results
              = findThisStoreReferences(query'.file, ContentOf(query'.file),
                                        query'.name, {}).results ]_vars

\* A query for this.count of the component has returned, after the read of
\* the deleted store file failed, the this.count of the component.
MissingFileDegradesWitness ==
  /\ StoreReadFailed
  /\ query.store \notin DOMAIN disk
  /\ query.results # << >>
  /\ \A i \in DOMAIN query.results : query.results[i].file = ComponentPath

====
